---- MODULE Spec2Model ----
(***************************************************************************)
(* Task registry (internal/app/repository), lifecycle engine               *)
(* (internal/app/usecase) and validator (internal/utils/validate) of the   *)
(* archive-collection service.                                             *)
(*                                                                         *)
(* Every repository method runs under r.mu for its whole body, so each is  *)
(* one atomic action.  TaskUsecase.AddObject is two steps: the repository  *)
(* call, then the unlocked inspection of len(task.Objects) through the     *)
(* live *models.Task pointer the repository returned.  ProcessTask is a    *)
(* goroutine stepping through its repository calls, the archive file       *)
(* creation, the fetch loop and its deferred closes.                       *)
(***************************************************************************)
EXTENDS Integers, Sequences, FiniteSets, Bags

(***************************************************************************)
(* Bounds of the exploration.                                              *)
(***************************************************************************)
MaxCapacity == 2     \* largest maxTasks handed to CreateTaskRepository
MaxCreates == 2      \* successful CreateTask calls explored
MaxAdds == 4         \* successful AddObject calls explored
MaxInFlight == 2     \* AddObject calls between their repository call and len test
MaxReleases == 2     \* slot releases explored per task under direct status writes

(***************************************************************************)
(* models.TaskStatus and the errs package.                                 *)
(***************************************************************************)
StatusWaiting == "waiting"
StatusProcessing == "processing"
StatusDone == "done"
StatusFailed == "failed"

NoError == "nil"
ErrTaskNotFound == "task not found"
ErrMaxTasksReached == "server is busy (max tasks limit)"
ErrMaxObjectsReached == "maximum objects per task reached"
ErrInvalidFileType == "invalid file type (allowed: .pdf, .jpeg)"

(***************************************************************************)
(* URLs are sequences of one-character strings.                            *)
(***************************************************************************)
UrlJpg == <<"a", ".", "j", "p", "g">>
UrlPdfUpper == <<"x", "/", "b", ".", "P", "D", "F">>
UrlDocx == <<"c", ".", "d", "o", "c", "x">>
Urls == {UrlJpg, UrlDocx}

(***************************************************************************)
(* internal/utils/validate                                                 *)
(***************************************************************************)
maxObjectsPerTask == 3

allowedExtensions ==
    { <<".", "p", "d", "f">>, <<".", "j", "p", "e", "g">>, <<".", "j", "p", "g">> }

\* unicode.ToLower on the letters that occur in the explored URLs
LowerChar(c) ==
    CASE c = "P" -> "p"
      [] c = "D" -> "d"
      [] c = "F" -> "f"
      [] c = "J" -> "j"
      [] c = "E" -> "e"
      [] c = "G" -> "g"
      [] OTHER -> c

\* strings.ToLower
ToLower(s) == [i \in 1..Len(s) |-> LowerChar(s[i])]

\* filepath.Ext: scan from the end up to the last separator, return the
\* suffix starting at the first dot met, "" if none
RECURSIVE ExtFrom(_, _)
ExtFrom(path, i) ==
    IF i < 1 \/ path[i] = "/" THEN <<>>
    ELSE IF path[i] = "." THEN SubSeq(path, i, Len(path))
    ELSE ExtFrom(path, i - 1)

\* the extension of the URL's path, its query string left out
ExtOfUrlPath(path) ==
    LET Q == {i \in 1..Len(path) : path[i] = "?"}
        p == IF Q = {} THEN path
             ELSE SubSeq(path, 1, (CHOOSE i \in Q : \A j \in Q : i <= j) - 1)
    IN  ExtFrom(p, Len(p))

Ext(path) == ExtFrom(path, Len(path))

ValidateObjectLimitOffByOne(currentObjects) ==
    IF currentObjects > maxObjectsPerTask THEN ErrMaxObjectsReached ELSE NoError

ValidateObjectLimit(currentObjects) ==
    IF currentObjects >= maxObjectsPerTask THEN ErrMaxObjectsReached ELSE NoError

ValidateFileExtensionAny(url) == NoError

ValidateFileExtension(url) ==
    IF ToLower(Ext(url)) \in allowedExtensions THEN NoError ELSE ErrInvalidFileType

(***************************************************************************)
(* State.                                                                  *)
(*   heap        the *models.Task values allocated so far; an address is   *)
(*               an index into heap                                        *)
(*   tasks       r.tasks: id -> address                                    *)
(*   activeTasks r.activeTasks                                             *)
(*   maxTasks    r.maxTasks                                                *)
(*   now         the last reading of time.Now().UnixNano(), 0 before the   *)
(*               first                                                     *)
(*   calls       TaskUsecase.AddObject calls between the repository call   *)
(*               and the len(task.Objects) test: a bag of addresses        *)
(*   procs       ProcessTask goroutines: a bag of records                  *)
(*   inodes, fs  storage: the files ever created, and path(task id) ->     *)
(*               file (task_<id>.zip under storagePath)                    *)
(*   released    per address, how often r.activeTasks-- ran for it         *)
(*   resp        what the last step returned to a caller of the service:   *)
(*               the result of a CreateTask or AddObject call, NoResp      *)
(*               after a step of a background goroutine                    *)
(*   bulk        the TaskDelivery.AddObjects request being served: its     *)
(*               goroutines, its context, its errgroup and its result      *)
(*   req         the other request being served by TaskDelivery, from its  *)
(*               call into the usecase to the response it writes           *)
(***************************************************************************)
VARIABLES heap, tasks, activeTasks, maxTasks, now, calls, procs, inodes, fs,
          released, resp, bulk, req

vars == <<heap, tasks, activeTasks, maxTasks, now, calls, procs, inodes, fs,
          released, resp, bulk, req>>

Addrs == 1..Len(heap)

TotalObjects == LET RECURSIVE Sum(_)
                    Sum(a) == IF a = 0 THEN 0 ELSE Len(heap[a].Objects) + Sum(a - 1)
                IN Sum(Len(heap))

Terminal(status) == status \in {StatusDone, StatusFailed}

NoResp == [op |-> "none", err |-> NoError, id |-> 0, url |-> <<>>]

\* models.MultiAddResult as AddObjects allocates it; FailedURLs is a map
EmptyResult == [AddedCount |-> 0, FailedURLs |-> <<>>, TotalObjects |-> 0]

\* no request is being served
NoReq ==
    [op |-> "none", pc |-> "idle", id |-> 0, task |-> 0, status |-> "",
     zip |-> FALSE, code |-> 0]

\* no AddObjects request has arrived
NoBulk ==
    [phase |-> "idle", taskID |-> 0, urls |-> <<>>, g |-> <<>>, ctx |-> NoError,
     err |-> NoError, result |-> EmptyResult, code |-> 0]

\* CreateTaskRepository(maxTasks)
Init ==
    /\ heap = <<>>
    /\ tasks = <<>>
    /\ activeTasks = 0
    /\ maxTasks \in 0..MaxCapacity
    /\ now = 0
    /\ calls = EmptyBag
    /\ procs = EmptyBag
    /\ inodes = <<>>
    /\ fs = <<>>
    /\ released = <<>>
    /\ resp = NoResp
    /\ bulk = NoBulk
    /\ req = NoReq

(***************************************************************************)
(* TaskRepository                                                          *)
(***************************************************************************)
AtCapacityOffByOne == activeTasks > maxTasks

AtCapacityNever == FALSE

AtCapacity == activeTasks >= maxTasks

\* r.tasks[task.ID] = task
Registered(id, a) ==
    [i \in DOMAIN tasks \cup {id} |-> IF i = id THEN a ELSE tasks[i]]

\* what time.Now().UnixNano() can return: the last reading again (a clock
\* coarser than the time between two calls) or a later one; only the order
\* and equality of readings matter, so a later one is the next integer
ClockReadings == IF now = 0 THEN {1} ELSE {now, now + 1}

\* TaskRepository.CreateTask; t is what time.Now().UnixNano() returns
CreateTask(t) ==
    IF AtCapacity
    THEN /\ t = now + 1
         /\ resp' = [op |-> "CreateTask", err |-> ErrMaxTasksReached, id |-> 0,
                     url |-> <<>>]
         /\ UNCHANGED <<heap, tasks, activeTasks, maxTasks, now, calls, procs,
                        inodes, fs, released>>
    ELSE /\ Len(heap) < MaxCreates
         /\ now' = t
         /\ heap' = Append(heap, [ID |-> t, Status |-> StatusWaiting,
                                  Objects |-> <<>>])
         /\ tasks' = Registered(t, Len(heap) + 1)
         /\ activeTasks' = activeTasks + 1
         /\ released' = Append(released, 0)
         /\ resp' = [op |-> "CreateTask", err |-> NoError, id |-> t, url |-> <<>>]
         /\ UNCHANGED <<maxTasks, calls, procs, inodes, fs>>


\* the checks of TaskRepository.AddObject, in the order the code makes them
AddObjectErrExtensionFirst(taskID, url) ==
    IF taskID \notin DOMAIN tasks THEN ErrTaskNotFound
    ELSE IF ValidateFileExtension(url) # NoError THEN ValidateFileExtension(url)
    ELSE ValidateObjectLimit(Len(heap[tasks[taskID]].Objects))

AddObjectErr(taskID, url) ==
    IF taskID \notin DOMAIN tasks THEN ErrTaskNotFound
    ELSE IF ValidateObjectLimit(Len(heap[tasks[taskID]].Objects)) # NoError
         THEN ValidateObjectLimit(Len(heap[tasks[taskID]].Objects))
    ELSE ValidateFileExtension(url)

\* TaskRepository.AddObject appending before it validates
RepoAddObjectAppendsFirst(taskID, url) ==
    /\ resp' = [op |-> "AddObject", err |-> AddObjectErr(taskID, url),
                id |-> 0, url |-> url]
    /\ IF taskID \notin DOMAIN tasks
       THEN heap' = heap
       ELSE /\ TotalObjects < MaxAdds
            /\ heap' = [heap EXCEPT ![tasks[taskID]].Objects =
                            Append(@, [URL |-> url])]
    /\ UNCHANGED <<tasks, activeTasks, maxTasks, now, released>>

\* TaskRepository.AddObject: what it does to the registry and what it returns
RepoAddObject(taskID, url) ==
    /\ resp' = [op |-> "AddObject", err |-> AddObjectErr(taskID, url),
                id |-> 0, url |-> url]
    /\ IF AddObjectErr(taskID, url) # NoError
       THEN heap' = heap
       ELSE /\ TotalObjects < MaxAdds
            /\ heap' = [heap EXCEPT ![tasks[taskID]].Objects =
                            Append(@, [URL |-> url])]
    /\ UNCHANGED <<tasks, activeTasks, maxTasks, now, released>>

\* TaskUsecase.AddObject up to the return of TaskRepository.AddObject: on an
\* error the call is over; on success the caller is left holding the task
\* pointer, about to test len(task.Objects)
AddObject(taskID, url) ==
    /\ RepoAddObject(taskID, url)
    /\ IF AddObjectErr(taskID, url) # NoError
       THEN calls' = calls
       ELSE /\ BagCardinality(calls) < MaxInFlight
            /\ calls' = calls (+) SetToBag({tasks[taskID]})
    /\ UNCHANGED <<procs, inodes, fs>>

\* TaskUsecase.AddObject, the test after the repository call: it reads the
\* length the task has now, and starts ProcessTask when that is 3
NewProc(taskID) ==
    [taskID |-> taskID, pc |-> "update", task |-> 0, fd |-> 0, objs |-> <<>>,
     idx |-> 0, written |-> <<>>, successCount |-> 0]

TriggerInline(a) ==
    /\ a \in BagToSet(calls)
    /\ calls' = calls (-) SetToBag({a})
    /\ procs' = IF Len(heap[a].Objects) = 3
                THEN procs (+) SetToBag({[NewProc(heap[a].ID) EXCEPT !.pc = "open"]})
                ELSE procs
    /\ heap' = IF Len(heap[a].Objects) = 3
               THEN [heap EXCEPT ![a].Status = StatusProcessing]
               ELSE heap
    /\ resp' = NoResp
    /\ UNCHANGED <<tasks, activeTasks, maxTasks, now, inodes, fs, released>>

Trigger(a) ==
    /\ a \in BagToSet(calls)
    /\ calls' = calls (-) SetToBag({a})
    /\ procs' = IF Len(heap[a].Objects) = 3
                THEN procs (+) SetToBag({NewProc(heap[a].ID)})
                ELSE procs
    /\ resp' = NoResp
    /\ UNCHANGED <<heap, tasks, activeTasks, maxTasks, now, inodes, fs, released>>

\* the condition under which TaskRepository.UpdateTaskStatus releases a slot
ReleasesSlotOnTerminal(oldStatus, status) ==
    status \in {StatusDone, StatusFailed}

ReleasesSlot(oldStatus, status) ==
    /\ status \in {StatusDone, StatusFailed}
    /\ oldStatus \in {StatusWaiting, StatusProcessing}

\* TaskRepository.UpdateTaskStatus on a registered id: the values it leaves
\* in heap, activeTasks and released
StatusWritten(id, status) ==
    [heap EXCEPT ![tasks[id]].Status = status]

ActiveAfterKeepsSlot(id, status) == activeTasks

ActiveAfter(id, status) ==
    IF ReleasesSlot(heap[tasks[id]].Status, status)
    THEN activeTasks - 1 ELSE activeTasks

ReleasedAfter(id, status) ==
    IF ReleasesSlot(heap[tasks[id]].Status, status)
    THEN [released EXCEPT ![tasks[id]] = @ + 1] ELSE released

Statuses == {StatusWaiting, StatusProcessing, StatusDone, StatusFailed}

\* TaskRepository.UpdateTaskStatus called by any holder of the repository
UpdateTaskStatus(id, status) ==
    IF id \notin DOMAIN tasks
    THEN /\ resp' = [op |-> "UpdateTaskStatus", err |-> ErrTaskNotFound, id |-> 0,
                     url |-> <<>>]
         /\ UNCHANGED <<heap, tasks, activeTasks, maxTasks, now, calls, procs,
                        inodes, fs, released>>
    ELSE /\ ReleasesSlot(heap[tasks[id]].Status, status)
                => released[tasks[id]] < MaxReleases
         /\ heap' = StatusWritten(id, status)
         /\ activeTasks' = ActiveAfter(id, status)
         /\ released' = ReleasedAfter(id, status)
         /\ resp' = [op |-> "UpdateTaskStatus", err |-> NoError, id |-> 0,
                     url |-> <<>>]
         /\ UNCHANGED <<tasks, maxTasks, now, calls, procs, inodes, fs>>


(***************************************************************************)
(* Storage.  os.Create(path) truncates the file the path names, or makes a *)
(* new one.  Every descriptor writes at its own offset, so a writer keeps  *)
(* writing where it was when another descriptor truncates or rewrites the  *)
(* file, or when the path is removed.  A file is a sequence of cells, one  *)
(* cell per archive entry or central directory; a cell a truncation left   *)
(* behind a later write is a hole.                                         *)
(***************************************************************************)
EmptyFile == <<>>

Hole == [kind |-> "hole", name |-> <<>>, body |-> 0, dir |-> <<>>]

\* a local file header with the payload that follows it
Entry(name, body) == [kind |-> "entry", name |-> name, body |-> body, dir |-> <<>>]

\* the central directory zip.Writer.Close writes: the headers it created,
\* each with the checksum of the payload it wrote
Directory(written) == [kind |-> "dir", name |-> <<>>, body |-> 0, dir |-> written]

\* a write of one cell at offset off through a descriptor
WriteAt(file, off, cell) ==
    [i \in 1..(IF off > Len(file) THEN off ELSE Len(file)) |->
        IF i = off THEN cell ELSE IF i <= Len(file) THEN file[i] ELSE Hole]

\* filepath.Base: drop trailing separators, keep what follows the last one
RECURSIVE StripSlashes(_)
StripSlashes(path) ==
    IF Len(path) > 0 /\ path[Len(path)] = "/"
    THEN StripSlashes(SubSeq(path, 1, Len(path) - 1))
    ELSE path

RECURSIVE LastElement(_, _)
LastElement(path, i) ==
    IF i < 1 \/ path[i] = "/" THEN SubSeq(path, i + 1, Len(path))
    ELSE LastElement(path, i - 1)

Base(path) ==
    IF Len(path) = 0 THEN <<".">>
    ELSE IF Len(StripSlashes(path)) = 0 THEN <<"/">>
    ELSE LastElement(StripSlashes(path), Len(StripSlashes(path)))

(***************************************************************************)
(* What one pass of the fetch loop can come to.  Two responses to a GET of *)
(* the same URL need not carry the same bytes: Bodies are the payloads a   *)
(* server may answer with.                                                 *)
(***************************************************************************)
Bodies == {1, 2}

\* http.Get failed, the status was not 200, or zipWriter.Create failed:
\* nothing reaches the archive
Unfetched == [entry |-> FALSE, ok |-> FALSE, body |-> 0]

\* io.Copy failed: the header zipWriter.Create made stays in the archive,
\* with the part of the payload that was copied, and is not counted
CopyFailed == [entry |-> TRUE, ok |-> FALSE, body |-> 0]

Fetched(body) == [entry |-> TRUE, ok |-> TRUE, body |-> body]

AllFetched == {Fetched(body) : body \in Bodies}

NoneFetched == {Unfetched, CopyFailed}

FetchOutcomes == NoneFetched \cup AllFetched

\* a pass leaves nothing or a whole entry, and a URL is always answered with
\* the same bytes
PlainOutcomes == {Unfetched, Fetched(1)}

(***************************************************************************)
(* TaskUsecase.ProcessTask, one action per step of the goroutine p.        *)
(***************************************************************************)
Move(p, q) == procs' = (procs (-) SetToBag({p})) (+) SetToBag({q})

Finished(p) == [NewProc(p.taskID) EXCEPT !.pc = "done"]

\* UpdateTaskStatus(ctx, taskID, models.StatusProcessing)
ProcessUpdate(p) ==
    /\ p.pc = "update"
    /\ IF p.taskID \notin DOMAIN tasks
       THEN /\ Move(p, Finished(p))
            /\ UNCHANGED <<heap, activeTasks, released>>
       ELSE /\ heap' = StatusWritten(p.taskID, StatusProcessing)
            /\ activeTasks' = ActiveAfter(p.taskID, StatusProcessing)
            /\ released' = ReleasedAfter(p.taskID, StatusProcessing)
            /\ Move(p, [p EXCEPT !.pc = "open"])
    /\ resp' = NoResp
    /\ UNCHANGED <<tasks, maxTasks, now, calls, inodes, fs>>

\* GetTask(ctx, taskID), os.Create(zipPath) and the evaluation of
\* `range task.Objects`.  GetTask and the range read only the registry and
\* os.Create only the storage, so every interleaving of other goroutines
\* between them has the same outcome as one that keeps the three together.
\* When os.Create fails: UpdateTaskStatus(failed) and return.
ProcessOpen(p, ok) ==
    /\ p.pc = "open"
    /\ IF p.taskID \notin DOMAIN tasks
       THEN /\ Move(p, Finished(p))
            /\ UNCHANGED <<heap, activeTasks, released, inodes, fs>>
       ELSE IF ok
       THEN /\ IF p.taskID \in DOMAIN fs
               THEN /\ inodes' = [inodes EXCEPT ![fs[p.taskID]] = EmptyFile]
                    /\ fs' = fs
               ELSE /\ inodes' = Append(inodes, EmptyFile)
                    /\ fs' = [i \in DOMAIN fs \cup {p.taskID} |->
                                 IF i = p.taskID THEN Len(inodes) + 1 ELSE fs[i]]
            /\ Move(p, [p EXCEPT !.task = tasks[p.taskID],
                                 !.fd = fs'[p.taskID],
                                 !.objs = heap[tasks[p.taskID]].Objects,
                                 !.idx = 1,
                                 !.pc = IF Len(heap[tasks[p.taskID]].Objects) = 0
                                        THEN "finish" ELSE "fetch"])
            /\ UNCHANGED <<heap, activeTasks, released>>
       ELSE /\ heap' = StatusWritten(p.taskID, StatusFailed)
            /\ activeTasks' = ActiveAfter(p.taskID, StatusFailed)
            /\ released' = ReleasedAfter(p.taskID, StatusFailed)
            /\ Move(p, Finished(p))
            /\ UNCHANGED <<inodes, fs>>
    /\ resp' = NoResp
    /\ UNCHANGED <<tasks, maxTasks, now, calls>>

\* one pass of the loop body with outcome r: http.Get, the status test,
\* zipWriter.Create(filepath.Base(obj.URL)), io.Copy, successCount++
ProcessFetch(p, r) ==
    /\ p.pc = "fetch"
    /\ inodes' = IF r.entry
                 THEN [inodes EXCEPT ![p.fd] =
                          WriteAt(@, Len(p.written) + 1,
                                  Entry(Base(p.objs[p.idx].URL), r.body))]
                 ELSE inodes
    /\ Move(p, [p EXCEPT !.idx = p.idx + 1,
                         !.written = IF r.entry
                                     THEN Append(@, [name |-> Base(p.objs[p.idx].URL),
                                                     body |-> r.body])
                                     ELSE @,
                         !.successCount = IF r.ok THEN @ + 1 ELSE @,
                         !.pc = IF p.idx = Len(p.objs) THEN "finish" ELSE "fetch"])
    /\ resp' = NoResp
    /\ UNCHANGED <<heap, tasks, activeTasks, maxTasks, now, calls, fs, released>>

\* the status ProcessTask writes after the loop
FinalStatusNoneOnZero(successCount) ==
    IF successCount = 0 THEN StatusProcessing ELSE StatusDone

FinalStatus(successCount) ==
    IF successCount = 0 THEN StatusFailed ELSE StatusDone

\* UpdateTaskStatus(failed) when successCount == 0, UpdateTaskStatus(done)
\* otherwise
ProcessFinish(p) ==
    /\ p.pc = "finish"
    /\ IF p.taskID \in DOMAIN tasks
       THEN /\ heap' = StatusWritten(p.taskID, FinalStatus(p.successCount))
            /\ activeTasks' = ActiveAfter(p.taskID, FinalStatus(p.successCount))
            /\ released' = ReleasedAfter(p.taskID, FinalStatus(p.successCount))
       ELSE UNCHANGED <<heap, activeTasks, released>>
    /\ Move(p, [p EXCEPT !.pc = IF p.successCount = 0 THEN "remove" ELSE "close"])
    /\ resp' = NoResp
    /\ UNCHANGED <<tasks, maxTasks, now, calls, inodes, fs>>

\* the deferred zipWriter.Close(): the central directory goes where this
\* descriptor's writes ended
Closed(p) ==
    [inodes EXCEPT ![p.fd] = WriteAt(@, Len(p.written) + 1, Directory(p.written))]

ProcessRemoveKeepsFile(p) ==
    /\ p.pc = "remove"
    /\ fs' = fs
    /\ inodes' = Closed(p)
    /\ Move(p, Finished(p))
    /\ resp' = NoResp
    /\ UNCHANGED <<heap, tasks, activeTasks, maxTasks, now, calls, released>>

\* os.Remove(zipPath), then the deferred closes on the file the descriptor
\* still holds
ProcessRemove(p) ==
    /\ p.pc = "remove"
    /\ fs' = [i \in DOMAIN fs \ {p.taskID} |-> fs[i]]
    /\ inodes' = Closed(p)
    /\ Move(p, Finished(p))
    /\ resp' = NoResp
    /\ UNCHANGED <<heap, tasks, activeTasks, maxTasks, now, calls, released>>

\* the deferred zipWriter.Close() and zipFile.Close() after done was written
ProcessClose(p) ==
    /\ p.pc = "close"
    /\ inodes' = Closed(p)
    /\ Move(p, Finished(p))
    /\ resp' = NoResp
    /\ UNCHANGED <<heap, tasks, activeTasks, maxTasks, now, calls, fs, released>>

\* a step of some ProcessTask goroutine, in an environment where os.Create
\* comes to one of CreateOk and a pass of the loop to one of Outcomes
ProcessSteps(CreateOk, Outcomes) ==
    /\ \E p \in BagToSet(procs) :
        \/ ProcessUpdate(p)
        \/ \E ok \in CreateOk : ProcessOpen(p, ok)
        \/ \E r \in Outcomes : ProcessFetch(p, r)
        \/ ProcessFinish(p)
        \/ ProcessRemove(p)
        \/ ProcessClose(p)
    /\ UNCHANGED <<bulk, req>>

ProcessTask == ProcessSteps(BOOLEAN, PlainOutcomes)

(***************************************************************************)
(* The system: requests arrive in any order and goroutines interleave.     *)
(***************************************************************************)
TaskIDs == 0..MaxCreates    \* the ids a request may name; 0 is never issued

Next ==
    \/ \E t \in ClockReadings : CreateTask(t) /\ UNCHANGED <<bulk, req>>
    \/ \E taskID \in TaskIDs, url \in Urls : AddObject(taskID, url) /\ UNCHANGED <<bulk, req>>
    \/ \E a \in BagToSet(calls) : Trigger(a) /\ UNCHANGED <<bulk, req>>
    \/ ProcessTask

Spec == Init /\ [][Next]_vars


(***************************************************************************)
(* The registry on its own: its methods called in any order by any caller. *)
(***************************************************************************)
RegistryNext ==
    \/ \E t \in ClockReadings : CreateTask(t) /\ UNCHANGED <<bulk, req>>
    \/ \E taskID \in TaskIDs, url \in Urls :
          RepoAddObject(taskID, url) /\ UNCHANGED <<calls, procs, inodes, fs, bulk, req>>
    \/ \E id \in TaskIDs, status \in Statuses : UpdateTaskStatus(id, status) /\ UNCHANGED <<bulk, req>>

RegistrySpec == Init /\ [][RegistryNext]_vars

\* the goroutine scheduler runs every started goroutine: a caller that has
\* returned from the repository reaches its len test, and a ProcessTask
\* goroutine takes its next step (no step of it waits for anything but r.mu)
FairSpec ==
    /\ Spec
    /\ WF_vars(\E a \in BagToSet(calls) : Trigger(a) /\ UNCHANGED <<bulk, req>>)
    /\ WF_vars(ProcessTask)

(***************************************************************************)
(* The round trip of one task: it is created, valid references are         *)
(* attached to it by callers that may overlap, os.Create succeeds and      *)
(* every fetch succeeds, with whatever bytes the server answers.           *)
(***************************************************************************)
ValidUrls == {UrlJpg, UrlPdfUpper}

RoundTripNext ==
    \/ \E t \in ClockReadings : Len(heap) = 0 /\ CreateTask(t) /\ UNCHANGED <<bulk, req>>
    \/ \E taskID \in TaskIDs, url \in ValidUrls : AddObject(taskID, url) /\ UNCHANGED <<bulk, req>>
    \/ \E a \in BagToSet(calls) : Trigger(a) /\ UNCHANGED <<bulk, req>>
    \/ ProcessSteps({TRUE}, AllFetched)

RoundTripSpec ==
    /\ Init
    /\ [][RoundTripNext]_vars
    /\ WF_vars(\E a \in BagToSet(calls) : Trigger(a) /\ UNCHANGED <<bulk, req>>)
    /\ WF_vars(ProcessSteps({TRUE}, AllFetched))

(***************************************************************************)
(* The system when no fetch succeeds.                                      *)
(***************************************************************************)
UnreachableNext ==
    \/ \E t \in ClockReadings : CreateTask(t) /\ UNCHANGED <<bulk, req>>
    \/ \E taskID \in TaskIDs, url \in Urls : AddObject(taskID, url) /\ UNCHANGED <<bulk, req>>
    \/ \E a \in BagToSet(calls) : Trigger(a) /\ UNCHANGED <<bulk, req>>
    \/ ProcessSteps(BOOLEAN, NoneFetched)

UnreachableSpec ==
    /\ Init
    /\ [][UnreachableNext]_vars
    /\ WF_vars(\E a \in BagToSet(calls) : Trigger(a) /\ UNCHANGED <<bulk, req>>)
    /\ WF_vars(ProcessSteps(BOOLEAN, NoneFetched))

(***************************************************************************)
(* The archive builder under every outcome of a fetch, for callers of      *)
(* AddObject that do not overlap: each makes its len test before the next  *)
(* repository call.                                                        *)
(***************************************************************************)
SequentialAddObject(taskID, url) ==
    /\ RepoAddObject(taskID, url)
    /\ procs' = IF AddObjectErr(taskID, url) = NoError
                    /\ Len(heap'[tasks[taskID]].Objects) = 3
                 THEN procs (+) SetToBag({NewProc(taskID)})
                 ELSE procs
    /\ UNCHANGED <<calls, inodes, fs>>

ArchiveNext ==
    \/ \E t \in ClockReadings : CreateTask(t) /\ UNCHANGED <<bulk, req>>
    \/ \E taskID \in TaskIDs, url \in Urls : SequentialAddObject(taskID, url) /\ UNCHANGED <<bulk, req>>
    \/ ProcessSteps(BOOLEAN, FetchOutcomes)

ArchiveSpec == Init /\ [][ArchiveNext]_vars

(***************************************************************************)
(* TaskDelivery.AddObjects, the handler of POST /tasks/{id}/objects: one   *)
(* goroutine per URL under an errgroup whose context carries the request's *)
(* 10 s deadline.  Each closure captures its own url (the loop variable is *)
(* per iteration, as the handler's table test needs it to be).             *)
(***************************************************************************)
MaxBatch == 4        \* longest URL list explored in one request

maxUrlsPerRequest == 3

DeadlineExceeded == "context deadline exceeded"
Canceled == "context canceled"

StatusOK == 200
StatusBadRequest == 400
StatusNotFound == 404
StatusInternalServerError == 500

\* req.URLs
UrlLists == UNION {[1..n -> Urls] : n \in 0..MaxBatch}

Goroutine(pc, addr, err) == [pc |-> pc, addr |-> addr, err |-> err]

\* result.FailedURLs[url] = err.Error()
MapSet(m, k, v) == [x \in DOMAIN m \cup {k} |-> IF x = k THEN v ELSE m[x]]

\* the handler without the test of len(req.URLs)
AddObjectsUnlimited(taskID, urls) ==
    /\ bulk.phase # "running"
    /\ bulk' = [NoBulk EXCEPT !.phase = "running", !.taskID = taskID,
                              !.urls = urls,
                              !.g = [i \in 1..Len(urls) |->
                                       Goroutine("select", 0, NoError)]]
    /\ resp' = NoResp
    /\ UNCHANGED <<heap, tasks, activeTasks, maxTasks, now, calls, procs, inodes,
                   fs, released, req>>

\* from the entry of the handler to the end of the g.Go loop
AddObjects(taskID, urls) ==
    /\ bulk.phase # "running"
    /\ bulk' = IF Len(urls) > maxUrlsPerRequest
               THEN [NoBulk EXCEPT !.phase = "responded", !.code = StatusBadRequest]
               ELSE [NoBulk EXCEPT !.phase = "running", !.taskID = taskID,
                                   !.urls = urls,
                                   !.g = [i \in 1..Len(urls) |->
                                            Goroutine("select", 0, NoError)]]
    /\ resp' = NoResp
    /\ UNCHANGED <<heap, tasks, activeTasks, maxTasks, now, calls, procs, inodes,
                   fs, released, req>>

\* the timer of context.WithTimeout fires while a goroutine is still running
AddObjectsDeadline ==
    /\ bulk.phase = "running"
    /\ bulk.ctx = NoError
    /\ \E i \in DOMAIN bulk.g : bulk.g[i].pc \notin {"done", "cancelled"}
    /\ bulk' = [bulk EXCEPT !.ctx = DeadlineExceeded]
    /\ resp' = NoResp
    /\ UNCHANGED <<heap, tasks, activeTasks, maxTasks, now, calls, procs, inodes,
                   fs, released, req>>

\* the select at the head of the closure: return ctx.Err() if the context is
\* done (the errgroup keeps the first error), go on otherwise.  A closure
\* that returned an error is "cancelled", one that returned nil is "done".
AddObjectsSelect(i) ==
    /\ bulk.phase = "running"
    /\ bulk.g[i].pc = "select"
    /\ bulk' = IF bulk.ctx # NoError
               THEN [bulk EXCEPT !.g[i].pc = "cancelled",
                                 !.err = IF @ = NoError THEN bulk.ctx ELSE @]
               ELSE [bulk EXCEPT !.g[i].pc = "call"]
    /\ resp' = NoResp
    /\ UNCHANGED <<heap, tasks, activeTasks, maxTasks, now, calls, procs, inodes,
                   fs, released, req>>

\* the closure returning the error of d.taskUsecase.AddObject to the
\* errgroup, which keeps the first error and cancels the context
AddObjectsCallFailFast(i) ==
    /\ bulk.phase = "running"
    /\ bulk.g[i].pc = "call"
    /\ AddObject(bulk.taskID, bulk.urls[i])
    /\ bulk' = IF AddObjectErr(bulk.taskID, bulk.urls[i]) # NoError
               THEN [bulk EXCEPT
                       !.g[i] = Goroutine("cancelled", 0,
                                          AddObjectErr(bulk.taskID, bulk.urls[i])),
                       !.err = IF @ = NoError
                               THEN AddObjectErr(bulk.taskID, bulk.urls[i]) ELSE @,
                       !.ctx = IF @ = NoError THEN Canceled ELSE @]
               ELSE [bulk EXCEPT
                       !.g[i] = Goroutine("usecase", tasks[bulk.taskID], NoError)]
    /\ UNCHANGED req

\* d.taskUsecase.AddObject up to the return of the repository call; on an
\* error the usecase returns at once and the closure records the failure
\* under mu and returns nil
AddObjectsCall(i) ==
    /\ bulk.phase = "running"
    /\ bulk.g[i].pc = "call"
    /\ AddObject(bulk.taskID, bulk.urls[i])
    /\ bulk' = IF AddObjectErr(bulk.taskID, bulk.urls[i]) # NoError
               THEN [bulk EXCEPT
                       !.g[i] = Goroutine("done", 0,
                                          AddObjectErr(bulk.taskID, bulk.urls[i])),
                       !.result.FailedURLs =
                           MapSet(@, bulk.urls[i],
                                  AddObjectErr(bulk.taskID, bulk.urls[i]))]
               ELSE [bulk EXCEPT
                       !.g[i] = Goroutine("usecase", tasks[bulk.taskID], NoError)]
    /\ UNCHANGED req

\* the rest of d.taskUsecase.AddObject (the len test on the task pointer
\* and the go statement), then result.AddedCount++ under mu and return nil
AddObjectsReturn(i) ==
    /\ bulk.phase = "running"
    /\ bulk.g[i].pc = "usecase"
    /\ Trigger(bulk.g[i].addr)
    /\ bulk' = [bulk EXCEPT !.g[i].pc = "done",
                            !.result.AddedCount = @ + 1]
    /\ UNCHANGED req

\* a handler that takes the references of the task back when g.Wait()
\* returns an error
AddObjectsRespondRollsBack ==
    /\ bulk.phase = "running"
    /\ \A i \in DOMAIN bulk.g : bulk.g[i].pc \in {"done", "cancelled"}
    /\ bulk' = IF bulk.err # NoError
               THEN [NoBulk EXCEPT !.phase = "responded",
                                   !.code = StatusInternalServerError]
               ELSE IF bulk.taskID \notin DOMAIN tasks
               THEN [NoBulk EXCEPT !.phase = "responded", !.code = StatusNotFound]
               ELSE [NoBulk EXCEPT !.phase = "responded", !.code = StatusOK,
                                   !.result = [bulk.result EXCEPT !.TotalObjects =
                                       Len(heap[tasks[bulk.taskID]].Objects)]]
    /\ heap' = IF bulk.err # NoError /\ bulk.taskID \in DOMAIN tasks
               THEN [heap EXCEPT ![tasks[bulk.taskID]].Objects = <<>>]
               ELSE heap
    /\ resp' = NoResp
    /\ UNCHANGED <<tasks, activeTasks, maxTasks, now, calls, procs, inodes,
                   fs, released, req>>

\* g.Wait() returns when every goroutine has returned; then the response
\* is written and the request is over
AddObjectsRespond ==
    /\ bulk.phase = "running"
    /\ \A i \in DOMAIN bulk.g : bulk.g[i].pc \in {"done", "cancelled"}
    /\ bulk' = IF bulk.err # NoError
               THEN [NoBulk EXCEPT !.phase = "responded",
                                   !.code = StatusInternalServerError]
               ELSE IF bulk.taskID \notin DOMAIN tasks
               THEN [NoBulk EXCEPT !.phase = "responded", !.code = StatusNotFound]
               ELSE [NoBulk EXCEPT !.phase = "responded", !.code = StatusOK,
                                   !.result = [bulk.result EXCEPT !.TotalObjects =
                                       Len(heap[tasks[bulk.taskID]].Objects)]]
    /\ resp' = NoResp
    /\ UNCHANGED <<heap, tasks, activeTasks, maxTasks, now, calls, procs, inodes,
                   fs, released, req>>

\* one task, a storage directory that takes the archive and a network that
\* answers every fetch: the requests differ, the environment does not
BulkNext ==
    \/ \E t \in ClockReadings : Len(heap) = 0 /\ CreateTask(t) /\ UNCHANGED <<bulk, req>>
    \/ \E taskID \in TaskIDs, urls \in UrlLists : AddObjects(taskID, urls)
    \/ AddObjectsDeadline
    \/ \E i \in DOMAIN bulk.g : AddObjectsSelect(i)
    \/ \E i \in DOMAIN bulk.g : AddObjectsCall(i)
    \/ \E i \in DOMAIN bulk.g : AddObjectsReturn(i)
    \/ AddObjectsRespond
    \/ ProcessSteps({TRUE}, {Fetched(1)})

BulkSpec == Init /\ [][BulkNext]_vars

(***************************************************************************)
(* TaskDelivery.GetTaskStatus and TaskDelivery.DownloadArchive.  Both get  *)
(* the live *models.Task from the usecase (TaskRepository.GetTask under    *)
(* r.mu) and read task.Status afterwards without the lock, so every read   *)
(* is a step of its own: a ProcessTask run may write between two of them.  *)
(***************************************************************************)
Free == req.pc \in {"idle", "responded"}

Answer(op, id, code) ==
    [NoReq EXCEPT !.op = op, !.pc = "responded", !.id = id, !.code = code]

\* d.taskUsecase.GetTaskStatus(r.Context(), taskID)
GetTaskStatus(id) ==
    /\ Free
    /\ req' = IF id \notin DOMAIN tasks
              THEN Answer("GetTaskStatus", id, StatusNotFound)
              ELSE [NoReq EXCEPT !.op = "GetTaskStatus", !.pc = "status",
                                 !.id = id, !.task = tasks[id]]
    /\ resp' = NoResp
    /\ UNCHANGED <<heap, tasks, activeTasks, maxTasks, now, calls, procs, inodes,
                   fs, released, bulk>>

\* response := struct{...}{Status: task.Status}
GetTaskStatusRead ==
    /\ req.op = "GetTaskStatus"
    /\ req.pc = "status"
    /\ req' = [req EXCEPT !.status = heap[req.task].Status, !.pc = "zip"]
    /\ resp' = NoResp
    /\ UNCHANGED <<heap, tasks, activeTasks, maxTasks, now, calls, procs, inodes,
                   fs, released, bulk>>

\* if task.Status == models.StatusDone { response.ZipURL = ... }, then 200
GetTaskStatusRespond ==
    /\ req.op = "GetTaskStatus"
    /\ req.pc = "zip"
    /\ req' = [req EXCEPT !.zip = (heap[req.task].Status = StatusDone),
                          !.code = StatusOK, !.pc = "responded"]
    /\ resp' = NoResp
    /\ UNCHANGED <<heap, tasks, activeTasks, maxTasks, now, calls, procs, inodes,
                   fs, released, bulk>>

\* d.taskUsecase.GetTask(r.Context(), taskID)
DownloadArchive(id) ==
    /\ Free
    /\ req' = IF id \notin DOMAIN tasks
              THEN Answer("DownloadArchive", id, StatusNotFound)
              ELSE [NoReq EXCEPT !.op = "DownloadArchive", !.pc = "status",
                                 !.id = id, !.task = tasks[id]]
    /\ resp' = NoResp
    /\ UNCHANGED <<heap, tasks, activeTasks, maxTasks, now, calls, procs, inodes,
                   fs, released, bulk>>

\* if task.Status != models.StatusDone: 404 "archive not ready"
DownloadArchiveStatus ==
    /\ req.op = "DownloadArchive"
    /\ req.pc = "status"
    /\ req' = IF heap[req.task].Status # StatusDone
              THEN [req EXCEPT !.status = heap[req.task].Status,
                               !.code = StatusNotFound, !.pc = "responded"]
              ELSE [req EXCEPT !.status = StatusDone, !.pc = "stat"]
    /\ resp' = NoResp
    /\ UNCHANGED <<heap, tasks, activeTasks, maxTasks, now, calls, procs, inodes,
                   fs, released, bulk>>

\* os.Stat(zipPath) answering a missing file with 404
DownloadArchiveStatNotFound ==
    /\ req.op = "DownloadArchive"
    /\ req.pc = "stat"
    /\ req' = IF req.id \notin DOMAIN fs
              THEN [req EXCEPT !.code = StatusNotFound, !.pc = "responded"]
              ELSE [req EXCEPT !.pc = "serve"]
    /\ resp' = NoResp
    /\ UNCHANGED <<heap, tasks, activeTasks, maxTasks, now, calls, procs, inodes,
                   fs, released, bulk>>

\* os.Stat(zipPath): 500 "archive file missing" when the file does not exist
DownloadArchiveStat ==
    /\ req.op = "DownloadArchive"
    /\ req.pc = "stat"
    /\ req' = IF req.id \notin DOMAIN fs
              THEN [req EXCEPT !.code = StatusInternalServerError,
                               !.pc = "responded"]
              ELSE [req EXCEPT !.pc = "serve"]
    /\ resp' = NoResp
    /\ UNCHANGED <<heap, tasks, activeTasks, maxTasks, now, calls, procs, inodes,
                   fs, released, bulk>>

\* http.ServeFile(w, r, zipPath): the file, or its own 404 when the file is
\* gone by now
DownloadArchiveServe ==
    /\ req.op = "DownloadArchive"
    /\ req.pc = "serve"
    /\ req' = [req EXCEPT !.code = IF req.id \in DOMAIN fs
                                   THEN StatusOK ELSE StatusNotFound,
                          !.pc = "responded"]
    /\ resp' = NoResp
    /\ UNCHANGED <<heap, tasks, activeTasks, maxTasks, now, calls, procs, inodes,
                   fs, released, bulk>>

\* one task, its callers and runs, and a client polling its status and
\* asking for its archive
ReadNext ==
    \/ \E t \in ClockReadings : Len(heap) = 0 /\ CreateTask(t) /\ UNCHANGED <<bulk, req>>
    \/ \E taskID \in TaskIDs, url \in Urls : AddObject(taskID, url) /\ UNCHANGED <<bulk, req>>
    \/ \E a \in BagToSet(calls) : Trigger(a) /\ UNCHANGED <<bulk, req>>
    \/ ProcessTask
    \/ \E id \in TaskIDs : GetTaskStatus(id)
    \/ GetTaskStatusRead
    \/ GetTaskStatusRespond
    \/ \E id \in TaskIDs : DownloadArchive(id)
    \/ DownloadArchiveStatus
    \/ DownloadArchiveStat
    \/ DownloadArchiveServe

ReadSpec == Init /\ [][ReadNext]_vars

(***************************************************************************)
(* Derived views used by the properties.                                   *)
(***************************************************************************)
\* the task GetTask(id) returns
TaskOf(id) == heap[tasks[id]]

\* how many ProcessTask goroutines were started for task id so far
Started(id) ==
    LET S == {p \in BagToSet(procs) : p.taskID = id}
        RECURSIVE Count(_)
        Count(T) == IF T = {} THEN 0
                    ELSE LET p == CHOOSE q \in T : TRUE
                         IN CopiesIn(p, procs) + Count(T \ {p})
    IN Count(S)

Running == {p \in BagToSet(procs) : p.pc # "done"}

\* the ProcessTask goroutines at work for task id
RunningFor(id) == {p \in Running : p.taskID = id}

(***************************************************************************)
(* What a reader of the file served by DownloadArchive finds in it.  A zip *)
(* reader takes the central directory at the end of the file; an entry it  *)
(* lists extracts when the header at its place is the one listed and the   *)
(* payload has the checksum the directory recorded.                        *)
(***************************************************************************)
IsArchive(file) == Len(file) > 0 /\ file[Len(file)].kind = "dir"

Listed(file) == file[Len(file)].dir

Extracts(file, i) ==
    /\ i <= Len(file)
    /\ file[i].kind = "entry"
    /\ file[i].name = Listed(file)[i].name
    /\ file[i].body = Listed(file)[i].body

Readable(file) ==
    /\ IsArchive(file)
    /\ \A i \in 1..Len(Listed(file)) : Extracts(file, i)

ArchiveNames(file) == [i \in 1..Len(Listed(file)) |-> Listed(file)[i].name]

\* the names ProcessTask gives the entries of a task's references, in the
\* order of the references
EntryNames(objs) == [i \in 1..Len(objs) |-> Base(objs[i].URL)]

\* task id has an archive at its path that holds exactly the entries names
HasArchive(id, names) ==
    /\ id \in DOMAIN fs
    /\ Readable(inodes[fs[id]])
    /\ ArchiveNames(inodes[fs[id]]) = names

(***************************************************************************)
(* C1: in every reachable state the active count is at most the capacity,  *)
(* whatever the order of the CreateTask, AddObject and UpdateTaskStatus     *)
(* calls made on the registry.                                             *)
(***************************************************************************)
C1_ActiveWithinCapacity == activeTasks <= maxTasks

\* a create has just filled the registry again after a task became terminal
\* and released its slot
C1_Witness ==
    /\ maxTasks >= 1
    /\ activeTasks = maxTasks
    /\ resp.op = "CreateTask"
    /\ resp.err = NoError
    /\ \E a \in Addrs : Terminal(heap[a].Status) /\ released[a] = 1

(***************************************************************************)
(* C2: in every reachable state the active count is not negative.          *)
(***************************************************************************)
C2_ActiveNonNegative == activeTasks >= 0

(***************************************************************************)
(* C3: for every task the active count is decremented on its behalf at     *)
(* most once, and exactly once when the task is terminal.                  *)
(***************************************************************************)
C3_ReleasedAtMostOnce ==
    \A a \in Addrs :
        /\ released[a] <= 1
        /\ Terminal(heap[a].Status) => released[a] = 1

(***************************************************************************)
(* C4: once a task is done or failed, no step of the system makes it       *)
(* waiting or processing again.                                            *)
(***************************************************************************)
C4_TerminalIsFinal ==
    [][\A a \in Addrs : Terminal(heap[a].Status) => Terminal(heap'[a].Status)]_vars

(***************************************************************************)
(* C5: for every task, ProcessTask is started at most once.                *)
(***************************************************************************)
C5_StartedAtMostOnce == \A id \in DOMAIN tasks : Started(id) <= 1

(***************************************************************************)
(* C6: no task ever holds more than 3 references, in whatever order the    *)
(* AddObject calls on it take r.mu.                                        *)
(***************************************************************************)
C6_AtMostThreeObjects == \A a \in Addrs : Len(heap[a].Objects) <= 3

\* a task is full and the call that came for a further slot on it was just
\* turned away, while another task still has room
C6_Witness ==
    /\ resp.op = "AddObject"
    /\ resp.err = ErrMaxObjectsReached
    /\ \E a \in Addrs : Len(heap[a].Objects) = 3
    /\ \E b \in Addrs : Len(heap[b].Objects) = 1

(***************************************************************************)
(* C7: on a task that holds 3 references AddObject fails with              *)
(* ErrMaxObjectsReached for every URL, also one whose extension is not     *)
(* allowed, and changes nothing.                                           *)
(***************************************************************************)
C7_FullTaskRejectsEveryUrl ==
    [][\A taskID \in TaskIDs, url \in Urls :
          ( /\ RepoAddObject(taskID, url)
            /\ taskID \in DOMAIN tasks
            /\ Len(TaskOf(taskID).Objects) = 3 )
          => /\ resp'.err = ErrMaxObjectsReached
             /\ UNCHANGED <<heap, tasks, activeTasks, released, calls, procs>>]_vars

\* a URL with a disallowed extension was just refused for the count
C7_Witness ==
    /\ resp.op = "AddObject"
    /\ resp.err = ErrMaxObjectsReached
    /\ ValidateFileExtension(resp.url) = ErrInvalidFileType

(***************************************************************************)
(* C8: when the active count equals the capacity CreateTask fails with     *)
(* ErrMaxTasksReached, returns and registers no task, and leaves the       *)
(* active count and every task as they were.                               *)
(***************************************************************************)
C8_CreateAtCapacityFails ==
    [][\A t \in ClockReadings :
          (CreateTask(t) /\ activeTasks = maxTasks)
          => /\ resp'.err = ErrMaxTasksReached
             /\ resp'.id = 0
             /\ UNCHANGED <<heap, tasks, activeTasks>>]_vars

\* a create was just refused by a registry that holds as many active tasks
\* as it has room for
C8_Witness ==
    /\ resp.op = "CreateTask"
    /\ resp.err = ErrMaxTasksReached
    /\ maxTasks >= 1
    /\ activeTasks = maxTasks
    /\ Cardinality(DOMAIN tasks) = maxTasks

(***************************************************************************)
(* C9: every successful CreateTask returns a positive id that no           *)
(* registered task has.                                                    *)
(***************************************************************************)
C9_FreshPositiveId ==
    [][(resp'.op = "CreateTask" /\ resp'.err = NoError)
          => (resp'.id > 0 /\ resp'.id \notin DOMAIN tasks)]_vars

(***************************************************************************)
(* C10: under fair scheduling, a task id whose task holds 3 references     *)
(* eventually reads done or failed, and no task id reads processing        *)
(* forever.  The status is the one GetTaskStatus(id) reports.              *)
(***************************************************************************)
C10_EventuallyTerminal ==
    \A id \in TaskIDs :
        /\ (id \in DOMAIN tasks /\ Len(TaskOf(id).Objects) = 3)
               ~> (id \in DOMAIN tasks /\ Terminal(TaskOf(id).Status))
        /\ []<>(id \notin DOMAIN tasks \/ TaskOf(id).Status # StatusProcessing)

\* a task with 3 references has been processed to the end
C10_Witness ==
    \E id \in DOMAIN tasks :
        /\ Len(TaskOf(id).Objects) = 3
        /\ Terminal(TaskOf(id).Status)
        /\ Started(id) >= 1
        /\ Running = {}
        /\ calls = EmptyBag

(***************************************************************************)
(* C11: a task that holds 3 valid references whose fetches all succeed     *)
(* eventually reads done while its archive holds exactly 3 entries, one    *)
(* per reference in insertion order, each named by the final path segment  *)
(* of its URL.                                                             *)
(***************************************************************************)
C11_RoundTrip ==
    \A id \in TaskIDs :
        (id \in DOMAIN tasks /\ Len(TaskOf(id).Objects) = 3)
            ~> ( /\ id \in DOMAIN tasks
                 /\ TaskOf(id).Status = StatusDone
                 /\ HasArchive(id, EntryNames(TaskOf(id).Objects)) )

(***************************************************************************)
(* C12: a ProcessTask run that created its archive file and counted at     *)
(* least one success writes done, whatever the other references came to,   *)
(* and when it ends the task's archive holds exactly the entries of the    *)
(* references that succeeded.                                              *)
(***************************************************************************)
\* the names of the entries run p counted as successes, in their order
RECURSIVE SuccessfulNames(_)
SuccessfulNames(written) ==
    IF written = <<>> THEN <<>>
    ELSE IF written[1].body \in Bodies
         THEN <<written[1].name>> \o SuccessfulNames(Tail(written))
         ELSE SuccessfulNames(Tail(written))

C12_PartialSuccessIsDone ==
    [][\A p \in BagToSet(procs) :
          /\ (ProcessFinish(p) /\ p.successCount > 0)
                => TaskOf(p.taskID).Status' = StatusDone
          /\ ProcessClose(p)
                => HasArchive(p.taskID, SuccessfulNames(p.written))']_vars

(***************************************************************************)
(* C13: when no reference of any task is fetched and written, a task id    *)
(* whose task holds 3 references comes to read failed; and at every moment *)
(* a file exists at a task's archive path only while a ProcessTask run     *)
(* that created it has not yet removed it, so none is left once the runs   *)
(* have finished.                                                          *)
(***************************************************************************)
C13_AllFailedNoArchive ==
    \A id \in TaskIDs :
        /\ (id \in DOMAIN tasks /\ Len(TaskOf(id).Objects) = 3)
               ~> (id \in DOMAIN tasks /\ TaskOf(id).Status = StatusFailed)
        /\ [](id \in DOMAIN fs
                 => \E p \in RunningFor(id) : p.pc \in {"fetch", "finish", "remove"})

\* a task with 3 references was processed to the end without a success: it
\* reads failed and the file its run created is gone from its path
C13_Witness ==
    \E id \in DOMAIN tasks :
        /\ Len(TaskOf(id).Objects) = 3
        /\ TaskOf(id).Status = StatusFailed
        /\ Started(id) >= 1
        /\ Running = {}
        /\ calls = EmptyBag
        /\ Len(inodes) >= 1
        /\ id \notin DOMAIN fs

(***************************************************************************)
(* C14: when os.Create fails, the ProcessTask run sets the task to failed  *)
(* and returns: it fetches nothing and writes nothing, and no file is left *)
(* at the task's archive path.                                             *)
(***************************************************************************)
C14_CreateFailureLeavesNothing ==
    [][\A p \in BagToSet(procs) :
          (ProcessOpen(p, FALSE) /\ p.taskID \in DOMAIN tasks)
          => /\ TaskOf(p.taskID).Status' = StatusFailed
             /\ Finished(p) \in BagToSet(procs')
             /\ inodes' = inodes
             /\ p.taskID \notin DOMAIN fs']_vars

(***************************************************************************)
(* C15: a task that holds fewer than 3 references reads waiting: nothing   *)
(* but an AddObject that brings a task to 3 references starts its          *)
(* processing.                                                             *)
(***************************************************************************)
C15_WaitingBelowThreshold ==
    \A a \in Addrs : Len(heap[a].Objects) < 3 => heap[a].Status = StatusWaiting

(***************************************************************************)
(* C16: the AddObject call that finds 3 references returns without a step  *)
(* of the processing it starts: it can return in every state, and its      *)
(* return changes no task and no file and leaves the new ProcessTask run   *)
(* at its first step.                                                      *)
(***************************************************************************)
C16_ReturnsBeforeProcessing ==
    /\ [](\A a \in BagToSet(calls) : ENABLED Trigger(a))
    /\ [][\A a \in BagToSet(calls) :
             (Trigger(a) /\ Len(heap[a].Objects) = 3)
             => /\ procs' = procs (+) SetToBag({NewProc(heap[a].ID)})
                /\ NewProc(heap[a].ID).pc = "update"
                /\ UNCHANGED <<heap, inodes, fs, activeTasks>>]_vars

\* the call that brought a task to 3 references has returned and the task
\* still reads waiting: its run has not taken a step
C16_Witness ==
    /\ calls = EmptyBag
    /\ \E id \in DOMAIN tasks :
          /\ Len(TaskOf(id).Objects) = 3
          /\ TaskOf(id).Status = StatusWaiting
          /\ NewProc(id) \in BagToSet(procs)
          /\ Started(id) = 1

(***************************************************************************)
(* The validator on its own: an input is drawn, ValidateFileExtension is   *)
(* applied to it.  resp.url holds the input, resp.err the result.          *)
(***************************************************************************)
SampleDirs ==
    { <<>>, <<"/">>, <<"x", "/">>, <<"x", ".", "p", "d", "f", "/">>,
      <<"h", ":", "/", "/", "e", ".", "c", "/", "i", "/">> }

SampleStems == { <<>>, <<"a">>, <<"a", ".", "b">>, <<"R", "E">> }

SampleExts ==
    { <<>>,
      <<".", "p", "d", "f">>, <<".", "P", "D", "F">>, <<".", "P", "d", "F">>,
      <<".", "j", "p", "e", "g">>, <<".", "J", "P", "E", "G">>,
      <<".", "j", "p", "g">>, <<".", "j", "s">>,
      <<".", "d", "o", "c", "x">>, <<".", "p", "d">>,
      <<".", "p", "d", "f", "x">>, <<"p", "d", "f">>, <<".">> }

SampleTails == { <<>>, <<"?", "t", "=", "a">>, <<"/">>, <<"?", "f", ".", "j", "p", "g">> }

SampleUrls ==
    { d \o n \o e \o t :
        d \in SampleDirs, n \in SampleStems, e \in SampleExts, t \in SampleTails }

ValidatorInit ==
    /\ heap = <<>>
    /\ tasks = <<>>
    /\ activeTasks = 0
    /\ maxTasks = 0
    /\ now = 0
    /\ calls = EmptyBag
    /\ procs = EmptyBag
    /\ inodes = <<>>
    /\ fs = <<>>
    /\ released = <<>>
    /\ bulk = NoBulk
    /\ req = NoReq
    /\ resp \in {[op |-> "input", err |-> NoError, id |-> 0, url |-> u] : u \in SampleUrls}

Validate ==
    /\ resp.op = "input"
    /\ resp' = [resp EXCEPT !.op = "ValidateFileExtension",
                            !.err = ValidateFileExtension(resp.url)]
    /\ UNCHANGED <<heap, tasks, activeTasks, maxTasks, now, calls, procs, inodes,
                   fs, released, bulk, req>>

ValidatorNext == Validate

ValidatorSpec == ValidatorInit /\ [][ValidatorNext]_vars

(***************************************************************************)
(* C17: every reference a task holds has a URL that ValidateFileExtension  *)
(* accepts.                                                                *)
(***************************************************************************)
C17_HeldReferencesAreValid ==
    \A a \in Addrs : \A i \in 1..Len(heap[a].Objects) :
        ToLower(Ext(heap[a].Objects[i].URL)) \in allowedExtensions

\* an unsupported URL has just been turned away from a task that holds references
C17_Witness ==
    /\ resp.op = "AddObject"
    /\ resp.err = ErrInvalidFileType
    /\ ToLower(Ext(resp.url)) \notin allowedExtensions
    /\ Len(heap) = 1
    /\ Len(heap[1].Objects) \in 1..2

(***************************************************************************)
(* C18: ValidateFileExtension accepts a URL exactly when the suffix of the *)
(* string that starts at the last "." of its last "/"-separated element,   *)
(* lower-cased, is .pdf, .jpeg or .jpg; every other string, with no such   *)
(* suffix or with anything after the extension, gets ErrInvalidFileType.   *)
(***************************************************************************)
C18_ExtensionRule ==
    LET url == resp.url
        slashes == {i \in 1..Len(url) : url[i] = "/"}
        lastSlash == IF slashes = {} THEN 0
                     ELSE CHOOSE i \in slashes : \A j \in slashes : j <= i
        dots == {i \in (lastSlash + 1)..Len(url) : url[i] = "."}
        suffix == IF dots = {} THEN <<>>
                  ELSE SubSeq(url, CHOOSE i \in dots : \A j \in dots : j <= i, Len(url))
        lowered == [i \in 1..Len(suffix) |->
                       CASE suffix[i] = "P" -> "p" [] suffix[i] = "D" -> "d"
                         [] suffix[i] = "F" -> "f" [] suffix[i] = "J" -> "j"
                         [] suffix[i] = "E" -> "e" [] suffix[i] = "G" -> "g"
                         [] OTHER -> suffix[i]]
    IN  resp.op = "ValidateFileExtension"
        => resp.err = IF lowered \in { <<".", "p", "d", "f">>,
                                       <<".", "j", "p", "e", "g">>,
                                       <<".", "j", "p", "g">> }
                      THEN NoError
                      ELSE ErrInvalidFileType

\* a URL with a query string after .pdf has been rejected
C18_Witness ==
    /\ resp.op = "ValidateFileExtension"
    /\ resp.url = <<"a", ".", "p", "d", "f", "?", "t", "=", "a">>
    /\ resp.err = ErrInvalidFileType

(***************************************************************************)
(* C19: a bulk attach of up to 3 URLs makes one attempt per URL whatever   *)
(* the other attempts return; the reference is appended exactly when the   *)
(* attempt returns no error; and unless the deadline fired the request on  *)
(* an existing task answers 200, with added_count the number of attempts   *)
(* that appended, failed_urls the URLs of the attempts that did not, each  *)
(* with the reason an attempt on it returned, and total_objects the number *)
(* of references the task holds when the answer is written.                *)
(***************************************************************************)
C19_BulkResult ==
    /\ [][\A i \in DOMAIN bulk.g :
             AddObjectsCall(i)
             => IF bulk'.g[i].pc = "usecase"
                THEN /\ bulk'.g[i].err = NoError
                     /\ heap' = [heap EXCEPT ![tasks[bulk.taskID]].Objects =
                                     Append(@, [URL |-> bulk.urls[i]])]
                ELSE /\ bulk'.g[i].err # NoError
                     /\ heap' = heap]_vars
    /\ [][AddObjectsRespond
           => LET n == Len(bulk.urls)
                  appended == {i \in 1..n : bulk.g[i].pc = "done"
                                            /\ bulk.g[i].err = NoError}
                  failed == {i \in 1..n : bulk.g[i].pc = "done"
                                          /\ bulk.g[i].err # NoError}
              IN  /\ (bulk.ctx # DeadlineExceeded /\ bulk.taskID \in DOMAIN tasks)
                        => bulk'.code = StatusOK
                  /\ bulk'.code = StatusOK
                        => /\ appended \cup failed = 1..n
                           /\ bulk'.result.AddedCount = Cardinality(appended)
                           /\ DOMAIN bulk'.result.FailedURLs
                                  = {bulk.urls[i] : i \in failed}
                           /\ \A u \in DOMAIN bulk'.result.FailedURLs :
                                  bulk'.result.FailedURLs[u]
                                      \in {bulk.g[i].err : i \in {j \in failed :
                                                               bulk.urls[j] = u}}
                           /\ bulk'.result.TotalObjects
                                  = Len(TaskOf(bulk.taskID).Objects)]_vars

\* a batch on a task with 2 references has been answered: one URL took the
\* last place, a second attempt on it met the limit, an unsupported URL was
\* turned away for its type
C19_Witness ==
    /\ bulk.phase = "responded"
    /\ bulk.code = StatusOK
    /\ bulk.result.AddedCount = 1
    /\ bulk.result.TotalObjects = 3
    /\ DOMAIN bulk.result.FailedURLs = {UrlJpg, UrlDocx}
    /\ bulk.result.FailedURLs[UrlJpg] = ErrMaxObjectsReached
    /\ bulk.result.FailedURLs[UrlDocx] = ErrInvalidFileType

(***************************************************************************)
(* C20: when the deadline of a bulk attach elapses before every attempt    *)
(* has returned, the request answers with a failure, and it answers        *)
(* without waiting for the attempts still running.                         *)
(***************************************************************************)
C20_DeadlineFailsBatch ==
    /\ [][(AddObjectsRespond /\ bulk.ctx = DeadlineExceeded)
           => bulk'.code # StatusOK]_vars
    /\ []((bulk.phase = "running" /\ bulk.ctx = DeadlineExceeded)
            => ENABLED AddObjectsRespond)

(***************************************************************************)
(* C21: a status response carries a zip_url exactly when the status it     *)
(* reports is done; for waiting, processing and failed it carries none.    *)
(***************************************************************************)
C21_ZipUrlIffDone ==
    (req.op = "GetTaskStatus" /\ req.pc = "responded" /\ req.code = StatusOK)
        => (req.zip <=> req.status = StatusDone)

(***************************************************************************)
(* C22 as stated: the archive download answers 404 when the status it      *)
(* reads is not done and 404 when the status is done but no file is at     *)
(* the archive path; it serves the file only after reading done.           *)
(***************************************************************************)
C22_MissingArchiveIs404 ==
    /\ [][(DownloadArchiveStatus /\ heap[req.task].Status # StatusDone)
           => (req'.pc = "responded" /\ req'.code = StatusNotFound)]_vars
    /\ [][(DownloadArchiveStat /\ req.id \notin DOMAIN fs)
           => (req'.pc = "responded" /\ req'.code = StatusNotFound)]_vars
    /\ []((req.op = "DownloadArchive" /\ req.code = StatusOK)
            => req.status = StatusDone)

(***************************************************************************)
(* C22 amended: the archive download answers 404 when the status it reads  *)
(* is not done, and 500 when the status is done but os.Stat finds no file  *)
(* at the archive path; a file that disappears between os.Stat and         *)
(* http.ServeFile gets ServeFile's 404; the file is served only after      *)
(* reading done.                                                           *)
(***************************************************************************)
C22_MissingArchiveIs500 ==
    /\ [][(DownloadArchiveStatus /\ heap[req.task].Status # StatusDone)
           => (req'.pc = "responded" /\ req'.code = StatusNotFound)]_vars
    /\ [][(DownloadArchiveStat /\ req.id \notin DOMAIN fs)
           => (req'.pc = "responded" /\ req'.code = StatusInternalServerError)]_vars
    /\ [][(DownloadArchiveServe /\ req.id \notin DOMAIN fs)
           => req'.code = StatusNotFound]_vars
    /\ []((req.op = "DownloadArchive" /\ req.code = StatusOK)
            => (req.status = StatusDone /\ req.pc = "responded"))

\* a download of a task that reads done was answered 500: no file was at
\* the archive path
C22_Witness ==
    /\ req.op = "DownloadArchive"
    /\ req.pc = "responded"
    /\ req.status = StatusDone
    /\ req.code = StatusInternalServerError
    /\ req.id \notin DOMAIN fs

(***************************************************************************)
(* C23: a successful CreateTask, in one step, allocates a task with status *)
(* waiting and no references, raises the active count by exactly 1, keeps  *)
(* every task registered before it registered and as it was, and makes the *)
(* new task the one GetTask returns under the returned id.                 *)
(***************************************************************************)
C23_CreateIsAtomic ==
    [][(resp'.op = "CreateTask" /\ resp'.err = NoError /\ heap' # heap)
       => /\ heap' = Append(heap, [ID |-> resp'.id, Status |-> StatusWaiting,
                                   Objects |-> <<>>])
          /\ activeTasks' = activeTasks + 1
          /\ \A id \in DOMAIN tasks :
                id \in DOMAIN tasks' /\ tasks'[id] = tasks[id]
          /\ resp'.id \in DOMAIN tasks'
          /\ tasks'[resp'.id] = Len(heap')]_vars

(***************************************************************************)
(* C24: UpdateTaskStatus on a registered id sets that task's status and    *)
(* nothing else of any task; the active count goes down by 1 exactly when  *)
(* the status before was waiting or processing and the new one is done or  *)
(* failed, and stays as it was in every other case; on an unregistered id  *)
(* it returns ErrTaskNotFound and changes nothing.                         *)
(***************************************************************************)
C24_UpdateStatusFrame ==
    [][\A id \in TaskIDs, status \in Statuses :
          UpdateTaskStatus(id, status)
          => IF id \in DOMAIN tasks
             THEN /\ resp'.err = NoError
                  /\ heap' = [heap EXCEPT ![tasks[id]].Status = status]
                  /\ tasks' = tasks
                  /\ activeTasks' =
                        IF /\ heap[tasks[id]].Status \in {StatusWaiting, StatusProcessing}
                           /\ status \in {StatusDone, StatusFailed}
                        THEN activeTasks - 1 ELSE activeTasks
             ELSE /\ resp'.err = ErrTaskNotFound
                  /\ UNCHANGED <<heap, tasks, activeTasks>>]_vars

\* the only task, which holds no reference and so was never processed, has
\* been given the status done and its slot was released once
C24_Witness ==
    /\ resp.op = "UpdateTaskStatus"
    /\ resp.err = NoError
    /\ Len(heap) = 1
    /\ heap[1].Objects = <<>>
    /\ heap[1].Status = StatusDone
    /\ released[1] = 1
    /\ activeTasks = 0

(***************************************************************************)
(* C25: an AddObject call that fails returns its error and no task, and    *)
(* changes nothing: no reference is appended, no status and no active      *)
(* count changes, no ProcessTask run is started; on an unregistered id the *)
(* error is ErrTaskNotFound whatever the URL.                              *)
(***************************************************************************)
C25_FailedAddChangesNothing ==
    [][\A taskID \in TaskIDs, url \in Urls :
          AddObject(taskID, url)
          => /\ resp'.err # NoError
                  => UNCHANGED <<heap, tasks, activeTasks, calls, procs>>
             /\ taskID \notin DOMAIN tasks => resp'.err = ErrTaskNotFound
             /\ (taskID \in DOMAIN tasks /\ Len(TaskOf(taskID).Objects) >= 3)
                  => resp'.err = ErrMaxObjectsReached]_vars

\* an unsupported URL sent to an unregistered id, beside a registered task,
\* was answered with ErrTaskNotFound
C25_Witness ==
    /\ resp.op = "AddObject"
    /\ resp.err = ErrTaskNotFound
    /\ resp.url = UrlDocx
    /\ Len(heap) >= 1
    /\ \E a \in Addrs : Len(heap[a].Objects) > 0

(***************************************************************************)
(* C26: the task a successful AddObject returns is a snapshot taken right  *)
(* after that call's append: from the return of the repository call to the *)
(* caller's inspection the number of references the caller can observe     *)
(* through it stays what that append left, also when other AddObject calls *)
(* on the same task complete in between.                                   *)
(***************************************************************************)
C26_ReturnedTaskIsSnapshot ==
    [][\A a \in BagToSet(calls) :
          Len(heap'[a].Objects) = Len(heap[a].Objects)]_vars

(***************************************************************************)
(* The delivery layer's answer to a failed call.  A handler parses the id  *)
(* of the path, AddObjects decodes the body, the usecase returns an error  *)
(* and the handler turns it into a response.  An error is the chain of     *)
(* messages errors.Unwrap walks, the outermost first.                      *)
(***************************************************************************)
StatusCreated == 201
StatusTooManyRequests == 429

\* errors.Is(err, target)
Is(err, target) == \E i \in DOMAIN err : err[i] = target

\* the errors a usecase call may return: the four of package errs, bare or
\* wrapped by a caller, and errors of other packages
SampleErrors ==
    LET Sentinels == {ErrTaskNotFound, ErrMaxTasksReached, ErrMaxObjectsReached,
                      ErrInvalidFileType}
    IN  {<<e>> : e \in Sentinels}
            \cup {<<"usecase", e>> : e \in Sentinels}
            \cup {<<DeadlineExceeded>>, <<"unexpected EOF">>}

\* mux.Vars(r)["id"] as the characters of the path segment
SampleRawIDs ==
    {<<"4", "2">>, <<"-", "7">>, <<"+", "1">>, <<"a", "b", "c">>, <<"1", ".", "5">>,
     <<"4", "2", "x">>, <<"-">>, <<>>}

\* strconv.ParseInt(rawID, 10, 64) returns no error: an optional sign and
\* at least one decimal digit, nothing else (the samples stay inside int64)
ParseIntOk(rawID) ==
    LET digits == IF Len(rawID) > 0 /\ rawID[1] \in {"+", "-"}
                  THEN Tail(rawID) ELSE rawID
    IN  /\ Len(digits) > 0
        /\ \A i \in DOMAIN digits :
              digits[i] \in {"0", "1", "2", "3", "4", "5", "6", "7", "8", "9"}

\* responses.DoBadResponseAndLog(w, statusCode, message)
DoBadResponseAndLog(statusCode, message) ==
    [code |-> statusCode, body |-> [status |-> statusCode, text |-> message]]

ResponseErrorAndLogAllInternal(err) ==
    IF Is(err, ErrTaskNotFound)
    THEN DoBadResponseAndLog(StatusNotFound, "task not found")
    ELSE IF Is(err, ErrMaxTasksReached)
    THEN DoBadResponseAndLog(StatusTooManyRequests, "server is busy")
    ELSE DoBadResponseAndLog(StatusInternalServerError, "internal error")

\* responses.ResponseErrorAndLog(w, err, funcName)
ResponseErrorAndLog(err) ==
    IF Is(err, ErrTaskNotFound)
    THEN DoBadResponseAndLog(StatusNotFound, "task not found")
    ELSE IF Is(err, ErrMaxTasksReached)
    THEN DoBadResponseAndLog(StatusTooManyRequests, "server is busy")
    ELSE IF Is(err, ErrMaxObjectsReached)
    THEN DoBadResponseAndLog(StatusBadRequest, "maximum objects reached")
    ELSE IF Is(err, ErrInvalidFileType)
    THEN DoBadResponseAndLog(StatusBadRequest, "invalid file type")
    ELSE DoBadResponseAndLog(StatusInternalServerError, "internal error")

\* the handlers that take the task id from the path
IdHandlers == {"GetTask", "AddObjects", "GetTaskStatus", "DownloadArchive"}

Handlers == IdHandlers \cup {"CreateTask", "GetAllTasks"}

\* what handler h writes when the id of the path is rawID, decoding the
\* body fails or not, and the usecase call it makes returns err
ErrorResponse(h, rawID, decodeFails, err) ==
    IF h \in IdHandlers /\ ~ParseIntOk(rawID)
    THEN DoBadResponseAndLog(StatusBadRequest, "invalid task id")
    ELSE IF h = "AddObjects" /\ decodeFails
    THEN DoBadResponseAndLog(StatusBadRequest, "invalid request body")
    ELSE IF h = "CreateTask" /\ Is(err, ErrMaxTasksReached)
    THEN [code |-> StatusTooManyRequests,
          body |-> [error |-> err,
                    max_tasks |-> maxTasks,
                    active_now |-> activeTasks,
                    suggestion |->
                        "Try again later or wait for current tasks to complete"]]
    ELSE ResponseErrorAndLog(err)

\* a request reaches handler h
Arrive(h, rawID, decodeFails, err) ==
    /\ req.pc \in {"idle", "responded"}
    /\ req' = [op |-> h, pc |-> "arrived", rawID |-> rawID,
               decodeFails |-> decodeFails, err |-> err, code |-> 0,
               body |-> <<>>]
    /\ resp' = NoResp
    /\ UNCHANGED <<heap, tasks, activeTasks, maxTasks, now, calls, procs, inodes,
                   fs, released, bulk>>

\* the handler answers it
Respond ==
    /\ req.pc = "arrived"
    /\ req' = [req EXCEPT
                 !.pc = "responded",
                 !.code = ErrorResponse(req.op, req.rawID, req.decodeFails,
                                        req.err).code,
                 !.body = ErrorResponse(req.op, req.rawID, req.decodeFails,
                                        req.err).body]
    /\ resp' = NoResp
    /\ UNCHANGED <<heap, tasks, activeTasks, maxTasks, now, calls, procs, inodes,
                   fs, released, bulk>>

\* failing requests against a registry that tasks are created in
DeliveryNext ==
    \/ \E t \in ClockReadings : CreateTask(t) /\ UNCHANGED <<bulk, req>>
    \/ \E h \in Handlers, rawID \in SampleRawIDs, decodeFails \in BOOLEAN,
          err \in SampleErrors : Arrive(h, rawID, decodeFails, err)
    \/ Respond

DeliverySpec == Init /\ [][DeliveryNext]_vars

RangeOrders ==
    {order \in [1..Cardinality(DOMAIN tasks) -> DOMAIN tasks] :
        \A i, j \in DOMAIN order : order[i] = order[j] => i = j}

\* TaskRepository.GetAllTasks
GetAllTasks ==
    /\ \E order \in RangeOrders :
          req' = [op |-> "GetAllTasks", pc |-> "responded",
                  result |-> [i \in DOMAIN order |-> tasks[order[i]]]]
    /\ resp' = NoResp
    /\ UNCHANGED <<heap, tasks, activeTasks, maxTasks, now, calls, procs, inodes,
                   fs, released, bulk>>

\* the registry with a caller that lists it
ListNext ==
    \/ RegistryNext
    \/ GetAllTasks

ListSpec == Init /\ [][ListNext]_vars

(***************************************************************************)
(* C28: GetAllTasks returns every task exactly once: as many tasks as      *)
(* CreateTask calls have succeeded (no task is ever removed), each of the  *)
(* created tasks among them, and the empty sequence when none was created. *)
(***************************************************************************)
C28_ListsEveryTaskOnce ==
    [][GetAllTasks
       => /\ Len(req'.result) = Len(heap)
          /\ \A a \in DOMAIN heap :
                Cardinality({i \in DOMAIN req'.result : req'.result[i] = a}) = 1]_vars

(***************************************************************************)
(* C29: every change of a task's status follows an edge of the state       *)
(* machine: waiting to processing, processing to done, processing to       *)
(* failed.  No task goes from waiting to done or failed, none leaves done  *)
(* or failed.                                                              *)
(***************************************************************************)
C29_StatusFollowsStateMachine ==
    [][\A a \in DOMAIN heap :
          heap'[a].Status # heap[a].Status
          => <<heap[a].Status, heap'[a].Status>> \in
                {<<StatusWaiting, StatusProcessing>>,
                 <<StatusProcessing, StatusDone>>,
                 <<StatusProcessing, StatusFailed>>}]_vars

(***************************************************************************)
(* C30: each reference of a task is fetched at most once, and the fetches  *)
(* of one task happen in insertion order.  Checked on every pass of a      *)
(* fetch loop: the pass fetches the reference at the position the run has  *)
(* reached in the task's list, and no other run that has not returned yet  *)
(* has already fetched the reference at that position.                     *)
(***************************************************************************)
C30_FetchedOnceInOrder ==
    [][\A p \in BagToSet(procs), r \in FetchOutcomes :
          ProcessFetch(p, r)
          => /\ p.objs[p.idx] = heap[p.task].Objects[p.idx]
             /\ \A q \in BagToSet(procs) :
                   (q # p /\ q.task = p.task) => q.idx <= p.idx]_vars

(***************************************************************************)
(* r.mu.  Every method of TaskRepository locks r.mu on entry and unlocks   *)
(* it on return, so a method waits while another goroutine is inside one.  *)
(* A ProcessTask run enters the registry through UpdateTaskStatus (before  *)
(* the archive is opened and after the loop) and through GetTask; here the *)
(* Lock() of its UpdateTaskStatus calls is a step of its own, so that      *)
(* states in which a run holds r.mu exist.  req records the holder.        *)
(***************************************************************************)
MuFree == req = NoReq

\* r.mu is held by run p, which is inside the UpdateTaskStatus call it
\* makes at p.pc
MuHeldBy(p) ==
    [NoReq EXCEPT !.op = "r.mu", !.pc = "locked", !.id = p.taskID,
                  !.status = p.pc]

\* what the return of UpdateTaskStatus leaves of the lock p held
UnlockSkipped(p) == MuHeldBy(p)

\* defer r.mu.Unlock()
Unlock(p) == NoReq

\* r.mu.Lock() at the head of UpdateTaskStatus, called by run p
ProcessLock(p) ==
    /\ p.pc \in {"update", "finish"}
    /\ MuFree
    /\ req' = MuHeldBy(p)
    /\ resp' = NoResp
    /\ UNCHANGED <<heap, tasks, activeTasks, maxTasks, now, calls, procs, inodes,
                   fs, released, bulk>>

\* the body of that UpdateTaskStatus call and its return
ProcessLocked(p) ==
    /\ req = MuHeldBy(p)
    /\ \/ ProcessUpdate(p)
       \/ ProcessFinish(p)
    /\ req' = Unlock(p)
    /\ UNCHANGED bulk

\* TaskRepository.GetTask
GetTask(id) ==
    /\ resp' = [op |-> "GetTask",
                err |-> IF id \in DOMAIN tasks THEN NoError ELSE ErrTaskNotFound,
                id |-> id, url |-> <<>>]
    /\ UNCHANGED <<heap, tasks, activeTasks, maxTasks, now, calls, procs, inodes,
                   fs, released>>

\* a call of a repository method by a goroutine that does not hold r.mu:
\* it takes the lock when it is free, runs and gives it back
WithMu(Method) ==
    /\ MuFree
    /\ Method
    /\ UNCHANGED <<bulk, req>>

LockNext ==
    \/ \E t \in ClockReadings : WithMu(CreateTask(t))
    \/ \E taskID \in TaskIDs, url \in Urls : WithMu(AddObject(taskID, url))
    \/ \E id \in TaskIDs : WithMu(GetTask(id))
    \/ \E a \in BagToSet(calls) : Trigger(a) /\ UNCHANGED <<bulk, req>>
    \/ \E p \in BagToSet(procs) : ProcessLock(p)
    \/ \E p \in BagToSet(procs) : ProcessLocked(p)
    \/ \E p \in BagToSet(procs), ok \in BOOLEAN : WithMu(ProcessOpen(p, ok))
    \/ \E p \in BagToSet(procs), r \in PlainOutcomes :
          ProcessFetch(p, r) /\ UNCHANGED <<bulk, req>>
    \/ \E p \in BagToSet(procs) : ProcessRemove(p) /\ UNCHANGED <<bulk, req>>
    \/ \E p \in BagToSet(procs) : ProcessClose(p) /\ UNCHANGED <<bulk, req>>

LockSpec == Init /\ [][LockNext]_vars

(***************************************************************************)
(* C31: a ProcessTask run holds r.mu only inside its UpdateTaskStatus and  *)
(* GetTask calls.  While a run is in its fetch loop it does not hold the   *)
(* lock, and unless another goroutine is inside a repository method at     *)
(* that moment, CreateTask, GetTask, AddObject and UpdateTaskStatus on     *)
(* other tasks can run at once.                                            *)
(***************************************************************************)
C31_FetchDoesNotHoldLock ==
    /\ req.op = "r.mu"
          => \E p \in BagToSet(procs) : req = MuHeldBy(p) /\ p.pc \in {"update", "finish"}
    /\ \A p \in BagToSet(procs) :
          (p.pc = "fetch" /\ MuFree)
          => /\ \E t \in ClockReadings :
                   (AtCapacity \/ Len(heap) < MaxCreates)
                      => ENABLED WithMu(CreateTask(t))
             /\ \A id \in TaskIDs \ {p.taskID} :
                   /\ ENABLED WithMu(GetTask(id))
                   /\ \A status \in Statuses :
                         (id \in DOMAIN tasks
                             => released[tasks[id]] < MaxReleases)
                            => ENABLED WithMu(UpdateTaskStatus(id, status))
                   /\ \A url \in Urls :
                         (TotalObjects < MaxAdds
                             /\ BagCardinality(calls) < MaxInFlight)
                            => ENABLED WithMu(AddObject(id, url))

\* while the run of one task is past its first fetch, a reference was
\* attached to another task
C31_Witness ==
    /\ MuFree
    /\ resp.op = "AddObject"
    /\ resp.err = NoError
    /\ \E p \in BagToSet(procs) :
          /\ p.pc = "fetch"
          /\ p.idx = 2
          /\ \E a \in DOMAIN heap : a # p.task /\ Len(heap[a].Objects) = 1

(***************************************************************************)
(* C32: an AddObjects request with more than 3 URLs is answered 400 before *)
(* any URL is attempted: no goroutine is started for it, no reference is   *)
(* appended to any task, no caller is left to start ProcessTask and no     *)
(* run is started.                                                         *)
(***************************************************************************)
C32_TooManyUrlsRejected ==
    [][\A taskID \in TaskIDs, urls \in UrlLists :
          (Len(urls) > 3 /\ AddObjects(taskID, urls))
          => /\ bulk'.phase = "responded"
             /\ bulk'.code = 400
             /\ bulk'.g = <<>>
             /\ UNCHANGED <<heap, tasks, activeTasks, calls, procs>>]_vars

\* a request of 4 URLs for a task one reference short of processing was
\* refused and the task still holds 2 references
C32_Witness ==
    /\ bulk.phase = "responded"
    /\ bulk.code = StatusBadRequest
    /\ Len(heap) = 1
    /\ Len(heap[1].Objects) = 2
    /\ heap[1].Status = StatusWaiting
    /\ procs = EmptyBag

(***************************************************************************)
(* C33: when the registry is at capacity and one of its active tasks       *)
(* becomes done or failed, the registry is no longer at capacity, and a    *)
(* CreateTask called on a registry that is not at capacity succeeds; the   *)
(* active count rises only in CreateTask, so the freed slot stays free     *)
(* until the next creation.                                                *)
(***************************************************************************)
C33_FreedSlotIsUsable ==
    [][/\ (/\ activeTasks >= maxTasks
           /\ \E a \in DOMAIN heap :
                 /\ heap[a].Status \in {StatusWaiting, StatusProcessing}
                 /\ heap'[a].Status \in {StatusDone, StatusFailed})
          => activeTasks' < maxTasks'
       /\ activeTasks' > activeTasks
          => (resp'.op = "CreateTask" /\ resp'.err = NoError)
       /\ \A t \in ClockReadings :
             (activeTasks < maxTasks /\ CreateTask(t))
             => /\ resp'.err = NoError
                /\ Len(heap') = Len(heap) + 1
                /\ heap'[Len(heap')].Status = StatusWaiting]_vars

\* with room for one task, a second task was created after the first one
\* had become done or failed
C33_Witness ==
    /\ maxTasks = 1
    /\ Len(heap) = 2
    /\ heap[1].Status \in {StatusDone, StatusFailed}
    /\ heap[2].Status = StatusWaiting
    /\ resp.op = "CreateTask"
    /\ resp.err = NoError
    /\ activeTasks = 1

(***************************************************************************)
(* C34: in every reachable state the active count equals the number of     *)
(* registered tasks whose status is waiting or processing.                 *)
(***************************************************************************)
C34_ActiveCountsNonTerminal ==
    activeTasks =
        Cardinality({id \in DOMAIN tasks :
                        heap[tasks[id]].Status \in {StatusWaiting, StatusProcessing}})

(***************************************************************************)
(* C35: whenever a task's status reads done, the task's archive exists at  *)
(* its path and is complete: the central directory that zip.Writer.Close   *)
(* writes is in the file.                                                  *)
(***************************************************************************)
C35_DoneArchiveIsClosed ==
    \A a \in DOMAIN heap :
        heap[a].Status = StatusDone
        => /\ heap[a].ID \in DOMAIN fs
           /\ IsArchive(inodes[fs[heap[a].ID]])

(***************************************************************************)
(* C36: a task whose status is not waiting holds exactly 3 references, and *)
(* once a task has left waiting its references are never changed again.    *)
(***************************************************************************)
C36_ProcessedTaskHasThree ==
    [][\A a \in DOMAIN heap :
          /\ heap'[a].Status # StatusWaiting => Len(heap'[a].Objects) = 3
          /\ heap[a].Status # StatusWaiting => heap'[a].Objects = heap[a].Objects]_vars

(***************************************************************************)
(* C37: for every AddObjects request answered 200, added_count plus the    *)
(* number of entries of failed_urls equals the number of URLs of the       *)
(* request, also when the request holds the same URL more than once.       *)
(***************************************************************************)
C37_AddedPlusFailedIsTotal ==
    [][(AddObjectsRespond /\ bulk'.code = StatusOK)
       => bulk'.result.AddedCount + Cardinality(DOMAIN bulk'.result.FailedURLs)
              = Len(bulk.urls)]_vars

(***************************************************************************)
(* C38: an AddObjects request that reports failure is not rolled back: the *)
(* response changes nothing in the registry, no reference is ever removed  *)
(* from a task, and when the task holds 3 references at that moment a      *)
(* ProcessTask run has been started for it.                                *)
(***************************************************************************)
C38_FailedBulkIsNotRolledBack ==
    [][/\ (AddObjectsRespond /\ bulk'.code # StatusOK)
          => /\ UNCHANGED <<heap, tasks, activeTasks, calls, procs>>
             /\ (/\ bulk.taskID \in DOMAIN tasks
                 /\ Len(heap[tasks[bulk.taskID]].Objects) = 3)
                   => \E p \in BagToSet(procs) : p.taskID = bulk.taskID
       /\ \A a \in DOMAIN heap :
             /\ Len(heap'[a].Objects) >= Len(heap[a].Objects)
             /\ SubSeq(heap'[a].Objects, 1, Len(heap[a].Objects))
                    = heap[a].Objects]_vars

\* g.Wait() is about to return the deadline error for a request of which
\* one attempt was cancelled and another appended the task's 3rd reference
C38_Witness ==
    /\ bulk.phase = "running"
    /\ bulk.err = DeadlineExceeded
    /\ \A i \in DOMAIN bulk.g : bulk.g[i].pc \in {"done", "cancelled"}
    /\ \E i \in DOMAIN bulk.g : bulk.g[i].pc = "cancelled"
    /\ \E i \in DOMAIN bulk.g : bulk.g[i].pc = "done" /\ bulk.g[i].err = NoError
    /\ bulk.taskID \in DOMAIN tasks
    /\ Len(heap[tasks[bulk.taskID]].Objects) = 3
    /\ \E p \in BagToSet(procs) : p.taskID = bulk.taskID

(***************************************************************************)
(* C39: the active count decreases only when a ProcessTask run writes done *)
(* or failed; a task with fewer than 3 references stays waiting; and once  *)
(* as many waiting tasks with fewer than 3 references exist as the         *)
(* registry has slots, CreateTask fails with ErrMaxTasksReached.           *)
(***************************************************************************)
C39_UnfilledTasksKeepSlots ==
    [][/\ activeTasks' < activeTasks
          => \E p \in BagToSet(procs) : ProcessOpen(p, FALSE) \/ ProcessFinish(p)
       /\ \A a \in DOMAIN heap :
             (heap[a].Status = StatusWaiting /\ Len(heap'[a].Objects) < 3)
             => heap'[a].Status = StatusWaiting
       /\ \A t \in ClockReadings \cup {now + 1} :
             (/\ Cardinality({a \in DOMAIN heap :
                                 /\ heap[a].Status = StatusWaiting
                                 /\ Len(heap[a].Objects) < 3}) >= maxTasks
              /\ CreateTask(t))
             => resp'.err = ErrMaxTasksReached]_vars

(***************************************************************************)
(* Start-up: main loads the configuration, leaves on a configuration error *)
(* and otherwise builds the repository with cfg.MaxActiveTasks.  req holds *)
(* the value of MAX_ACTIVE_TASKS in the environment and where main is.     *)
(***************************************************************************)
MaxInt32 == 2147483647

\* values of MAX_ACTIVE_TASKS, as characters
SampleEnv ==
    {<<"2">>, <<"1">>, <<"0">>, <<"+", "1">>, <<"-", "1">>, <<"0", "2">>,
     <<"a", "b", "c">>, <<"2", "x">>, <<"1", ".", "5">>, <<" ", "2">>, <<"-">>,
     <<"3", "0", "0", "0", "0", "0", "0", "0", "0", "0">>, <<>>}

DigitValue(c) ==
    CASE c = "0" -> 0 [] c = "1" -> 1 [] c = "2" -> 2 [] c = "3" -> 3
      [] c = "4" -> 4 [] c = "5" -> 5 [] c = "6" -> 6 [] c = "7" -> 7
      [] c = "8" -> 8 [] c = "9" -> 9 [] OTHER -> -1

\* the number the digits spell, or -1 once it has passed MaxInt32
RECURSIVE Magnitude(_, _)
Magnitude(digits, acc) ==
    IF Len(digits) = 0 THEN acc
    ELSE IF acc > (MaxInt32 - DigitValue(Head(digits))) \div 10 THEN -1
    ELSE Magnitude(Tail(digits), acc * 10 + DigitValue(Head(digits)))

\* strconv.ParseInt(s, 10, 32): the value and whether err is nil.  A syntax
\* error comes with 0, a range error with the nearest int32.
ParseInt32(s) ==
    LET neg == Len(s) > 0 /\ s[1] = "-"
        digits == IF Len(s) > 0 /\ s[1] \in {"+", "-"} THEN Tail(s) ELSE s
        syntax == /\ Len(digits) > 0
                  /\ \A i \in DOMAIN digits : DigitValue(digits[i]) >= 0
    IN  IF ~syntax THEN [value |-> 0, ok |-> FALSE]
        ELSE IF Magnitude(digits, 0) = -1
        THEN [value |-> IF neg THEN -MaxInt32 - 1 ELSE MaxInt32, ok |-> FALSE]
        ELSE [value |-> IF neg THEN -Magnitude(digits, 0) ELSE Magnitude(digits, 0),
              ok |-> TRUE]

stringToIntOrOne(s) == IF ParseInt32(s).ok THEN ParseInt32(s).value ELSE 1

\* i, _ := strconv.ParseInt(s, 10, 32); return int(i)
stringToInt(s) == ParseInt32(s).value

ConfigInit ==
    /\ heap = <<>>
    /\ tasks = <<>>
    /\ activeTasks = 0
    /\ maxTasks = 0
    /\ now = 0
    /\ calls = EmptyBag
    /\ procs = EmptyBag
    /\ inodes = <<>>
    /\ fs = <<>>
    /\ released = <<>>
    /\ resp = NoResp
    /\ bulk = NoBulk
    /\ req \in {[op |-> "main", pc |-> "start", env |-> s] : s \in SampleEnv}

\* config.LoadConfig (checkEnv refuses an empty value) and, when it
\* returns a configuration, CreateTaskRepository(cfg.MaxActiveTasks)
LoadConfig ==
    /\ req.pc = "start"
    /\ IF req.env = <<>>
       THEN /\ req' = [req EXCEPT !.pc = "exited"]
            /\ maxTasks' = maxTasks
       ELSE /\ req' = [req EXCEPT !.pc = "serving"]
            /\ maxTasks' = stringToInt(req.env)
    /\ resp' = NoResp
    /\ UNCHANGED <<heap, tasks, activeTasks, now, calls, procs, inodes, fs,
                   released, bulk>>

ConfigNext ==
    \/ LoadConfig
    \/ req.pc = "serving" /\ RegistryNext

ConfigSpec == ConfigInit /\ [][ConfigNext]_vars

(***************************************************************************)
(* C40: when MAX_ACTIVE_TASKS is set to something that is not an integer,  *)
(* no configuration error is raised, the capacity is 0 and every           *)
(* CreateTask fails with ErrMaxTasksReached.                               *)
(***************************************************************************)
C40_BadCapacityBecomesZero ==
    LET NotAnInteger ==
            /\ req.env # <<>>
            /\ \/ req.env \in {<<"+">>, <<"-">>}
               \/ \E i \in DOMAIN req.env :
                     /\ req.env[i] \notin {"0", "1", "2", "3", "4", "5", "6", "7",
                                           "8", "9"}
                     /\ ~(i = 1 /\ req.env[i] \in {"+", "-"})
    IN  (req.pc # "start" /\ NotAnInteger)
        => /\ req.pc = "serving"
           /\ maxTasks = 0
           /\ heap = <<>>
           /\ resp.op = "CreateTask" => resp.err = ErrMaxTasksReached

\* the service started with MAX_ACTIVE_TASKS=2x and refused a CreateTask
C40_Witness ==
    /\ req.pc = "serving"
    /\ req.env = <<"2", "x">>
    /\ resp.op = "CreateTask"
    /\ resp.err = ErrMaxTasksReached
    /\ maxTasks = 0

====
